---- MODULE Spec2Model ----
(***************************************************************************)
(* The photo frame: the Rotator (display_image.py, run by cron / a systemd *)
(* timer) and the web gallery (webframe.py, Flask) share the directory     *)
(* photos/: photos_ready/*.bmp (the Ready-Set), thumbs/, photos_source/,   *)
(* the symlink current.bmp (the Current-Pointer), its temporary            *)
(* current.tmp and the lock file .display.lock.                            *)
(*                                                                         *)
(* Every filesystem call of the two programs is one atomic step; a process *)
(* is a Rotator invocation ("r1", "r2") or a web request handler ("w1",    *)
(* "w2").  A Ready-Set name is a number: its rank in lexicographic order.  *)
(***************************************************************************)
EXTENDS Integers, Sequences, FiniteSets

\* Names the web requests draw from (uploads, set-current, delete).
MaxName == 2
\* Names of the rotation-only scenario, and the runs its log keeps.
MaxRotName == 3
MaxRuns == 4
\* The seconds the clock of the upload scenario runs through: 0..MaxStamp.
MaxStamp == 1
\* Widths and heights of source images and of free target sizes: 1..MaxDim.
MaxDim == 8
\* `W, H = 800, 480`: the panel.
W == 800
H == 480

Names == 1..MaxName
RotNames == 1..MaxRotName
Rotators == {"r1", "r2"}
Web == {"w1", "w2"}
\* `Path(raw).suffix.lower()`: the extensions uploaded sources come with.
Exts == {"jpg", "png"}

VARIABLES
  ready,    \* names of photos_ready/*.bmp
  thumbs,   \* stems of thumbs/*.jpg
  srcs,     \* photos_source/*: <<stem, extension>> of each file
  link,     \* photos/current.bmp
  tmp,      \* photos/current.tmp
  lock,     \* holder of the flock on .display.lock, or "free"
  rot,      \* per Rotator invocation: position and locals of main()
  web,      \* per web handler: position, request and argument
  hist,     \* history: the images displayed (kept in the rotation-only
            \* scenario), and the entry the next run is left to display
  serial,   \* history: no operation has started while another was in progress
  now,      \* the wall clock, in whole seconds (what datetime.now() formats)
  img       \* a compositor call: its function, arguments and result

vars == <<ready, thumbs, srcs, link, tmp, lock, rot, web, hist, serial, now,
          img>>
fs == <<ready, thumbs, srcs, link, tmp>>

----
\* What a directory entry current.bmp / current.tmp can be.
NoLink == [k |-> "none", to |-> 0]
RegFile == [k |-> "file", to |-> 0]
Sym(n) == [k |-> "sym", to |-> n]

\* Path values held by the Rotator: None, READY_DIR / n, LINK_PATH.
None == [k |-> "None", to |-> 0]
ReadyPath(n) == [k |-> "ready", to |-> n]
LinkPath == [k |-> "link", to |-> 0]

\* Path.exists(): follows symlinks, False for a dangling one.
PathExists(p) ==
  CASE p.k = "ready" -> p.to \in ready
    [] p.k = "link" -> link.k = "file" \/ (link.k = "sym" /\ link.to \in ready)
    [] OTHER -> FALSE

\* LINK_PATH.resolve() (non-strict): the target of a symlink, existing or
\* not; the path itself when it is no symlink.
Resolve(l) == IF l.k = "sym" THEN ReadyPath(l.to) ELSE LinkPath

Min(S) == CHOOSE m \in S : \A x \in S : m <= x

RECURSIVE Sorted(_)
Sorted(S) == IF S = {} THEN <<>> ELSE <<Min(S)>> \o Sorted(S \ {Min(S)})

\* sorted(p.name for p in READY_DIR.glob("*.bmp"))
list_ready_names == Sorted(ready)

Range(s) == {s[i] : i \in 1..Len(s)}
IndexOf(s, x) == CHOOSE i \in 1..Len(s) : s[i] = x

\* current_path.name is in ready_list: LINK_PATH's name, current.bmp, is none
\* of the timestamped names.
InList(p, l) == p.k = "ready" /\ p.to \in Range(l)

\* Mutants of pick_next_after: no wrap at the end of the list; no advance.
pick_next_no_wrap(current_path, ready_list) ==
  IF ready_list = <<>> THEN None
  ELSE IF current_path = None THEN ReadyPath(ready_list[1])
  ELSE IF ~InList(current_path, ready_list) THEN ReadyPath(ready_list[1])
  ELSE LET i == IndexOf(ready_list, current_path.to) IN
       ReadyPath(ready_list[IF i < Len(ready_list) THEN i + 1 ELSE i])

pick_next_same(current_path, ready_list) ==
  IF ready_list = <<>> THEN None
  ELSE IF current_path = None THEN ReadyPath(ready_list[1])
  ELSE IF ~InList(current_path, ready_list) THEN ReadyPath(ready_list[1])
  ELSE current_path

pick_next_after(current_path, ready_list) ==
  IF ready_list = <<>> THEN None
  ELSE IF current_path = None THEN ReadyPath(ready_list[1])
  ELSE IF ~InList(current_path, ready_list) THEN ReadyPath(ready_list[1])
  ELSE ReadyPath(ready_list[(IndexOf(ready_list, current_path.to) % Len(ready_list)) + 1])

\* Mutant of ShouldRepoint: repoints also onto the current entry.
ShouldRepointAlways(next_path, current_path) == next_path # None

\* `if next_path and next_path != current_path`
ShouldRepoint(next_path, current_path) ==
  next_path # None /\ next_path # current_path

\* Mutant of LockBusy: the lock is never found held.
LockNeverBusy == FALSE

\* flock(LOCK_EX | LOCK_NB) raises BlockingIOError
LockBusy == lock # "free"

\* Mutant of Replaced: LINK_PATH is unlinked first, the new link made later.
ReplacedByUnlink(t) == NoLink

\* tmp.replace(LINK_PATH): what LINK_PATH is after the rename
Replaced(t) == t

\* Mutants of PointsHere: the name is not compared; the test never holds.
PointsAnywhere(l, n) == l.k = "sym"

PointsNowhere(l, n) == FALSE

\* `LINK_PATH.is_symlink() and LINK_PATH.resolve().name == ready_name`
PointsHere(l, n) == l.k = "sym" /\ l.to = n

\* `if not ready`
NothingToDisplay(ready_list) == ready_list = <<>>

----
\* listing, cur: main's ready and current_path; tgt, ret: the argument of the
\* atomic_point_current call in progress and where main goes on after it;
\* shown: the path whose image this run put on the panel; rc: the exit code;
\* msg: what the run logged last ("failed: ..." names the call that raised).
RotIdle == [pc |-> "idle", listing |-> <<>>, cur |-> None, tgt |-> None,
            ret |-> "", healed |-> FALSE, shown |-> None, slept |-> FALSE,
            rc |-> 0, msg |-> ""]
\* tok: the token the request in progress carried ("" outside a request).
\* arg: the name a set or delete request gives, the stem of an uploaded file;
\* base: the name upload() derived for the file.
\* ext: the extension of an uploaded file; todo: what is left of the glob
\* the delete iterates over; fail: the sub-steps of the delete whose unlink
\* raised ("ready", "thumb", "link", or the extension of a source file).
WebIdle == [pc |-> "idle", op |-> "", arg |-> 0, pre |-> NoLink, tok |-> "",
            base |-> 0, ext |-> "", todo |-> {}, fail |-> {}]

\* `stamp = datetime.now().strftime("%Y%m%d-%H%M%S")`,
\* `base = f"{stamp}-{Path(raw).stem}"`: names sort by second, then by stem,
\* so base is the rank of (stamp, stem) among MaxName stems per second.
\* Stamp 0 gives the names 1..MaxName.
ready_name(stamp, stem) == stamp * MaxName + stem

\* `TOKEN = os.environ.get("PHOTOFRAME_TOKEN", "changeme123")`
TOKEN == "changeme123"
\* What a request can carry as its token; "none" is a request without one.
Tokens == {TOKEN, "wrong", "none"}

\* Mutant of require_token: every token is accepted.
require_token_any(t) == TRUE

\* `if t != TOKEN: abort(403)`: TRUE when the request goes on.
require_token(t) == t = TOKEN

\* hist.pin: the path left for the next run to display, by a set_current
\* that installed it (by = "set"; dropped when a delete or a later
\* set_current names it) or by a run that failed on it (by = "failed"),
\* with the first Rotator run that got the lock afterwards ("" while there
\* is none); reset when that run ends.
NoPin == [path |-> None, by |-> "", run |-> ""]
Pin(path, by) == [path |-> path, by |-> by, run |-> ""]

\* No compositor call is being looked at.
NoOut == [raised |-> FALSE, size |-> <<0, 0>>, nw |-> 0, nh |-> 0,
          x |-> 0, y |-> 0]
NoImage == [fn |-> "", iw |-> 0, ih |-> 0, tw |-> 0, th |-> 0, rotate |-> 0,
            out |-> NoOut]

FsInit(N, L) ==
  /\ ready \in SUBSET N
  /\ thumbs = ready
  /\ srcs = {<<n, "jpg">> : n \in ready}
  /\ link \in L
  /\ tmp = NoLink
  /\ lock = "free"
  /\ rot = [r \in Rotators |-> RotIdle]
  /\ web = [w \in Web |-> WebIdle]
  /\ serial = TRUE
  /\ now = 0

\* The pointer is absent or references a live entry.
Init ==
  /\ FsInit(Names, {NoLink} \cup {Sym(n) : n \in Names})
  /\ link.k = "sym" => link.to \in ready
  /\ hist = [on |-> FALSE, from |-> NoLink, seq |-> <<>>, pin |-> NoPin]
  /\ img = NoImage

\* A rotation-only scenario: any pointer, also dangling or a regular file.
InitRot ==
  /\ FsInit(RotNames, {NoLink, RegFile} \cup {Sym(n) : n \in RotNames})
  /\ hist = [on |-> TRUE, from |-> link, seq |-> <<>>, pin |-> NoPin]
  /\ img = NoImage

\* No process other than p is inside an operation.
OthersIdle(p) ==
  /\ \A r \in Rotators \ {p} : rot[r].pc = "idle"
  /\ \A w \in Web \ {p} : web[w].pc = "idle"

----
\* ---- Rotator: display_image.main ----
SetRot(r, f) == rot' = [rot EXCEPT ![r] = f]

\* Mutant of Displayed: an unlisted current is replaced by the first entry.
DisplayedListed(r) ==
  IF InList(rot[r].cur, rot[r].listing) THEN rot[r].cur
  ELSE ReadyPath(rot[r].listing[1])

\* the path main() hands to open_as_panel_image: current_path
Displayed(r) == rot[r].cur

\* Mutant of main_unlock: the run ends without releasing the lock.
main_unlock_leak(r) ==
  /\ rot[r].pc = "unlock"
  /\ SetRot(r, [rot[r] EXCEPT !.pc = "exit"])
  /\ UNCHANGED <<fs, lock, web, hist, serial, now, img>>

acquire_lock(r) ==
  /\ rot[r].pc = "idle"
  /\ IF LockBusy
       THEN /\ SetRot(r, [rot[r] EXCEPT !.pc = "exit", !.rc = 0, !.msg = "busy"])
            /\ UNCHANGED lock
            /\ UNCHANGED hist
       ELSE /\ lock' = r
            /\ SetRot(r, [rot[r] EXCEPT !.pc = "list"])
            /\ hist' = IF hist.pin # NoPin /\ hist.pin.run = ""
                         THEN [hist EXCEPT !.pin.run = r] ELSE hist
  /\ serial' = (serial /\ OthersIdle(r))
  /\ UNCHANGED <<fs, web, now, img>>

main_list(r) ==
  /\ rot[r].pc = "list"
  /\ IF NothingToDisplay(list_ready_names)
       THEN SetRot(r, [rot[r] EXCEPT !.pc = "unlock", !.msg = "nothing"])
       ELSE SetRot(r, [rot[r] EXCEPT !.pc = "res_exists", !.listing = list_ready_names])
  /\ UNCHANGED <<fs, lock, web, hist, serial, now, img>>

resolve_exists(r) ==
  /\ rot[r].pc = "res_exists"
  /\ IF PathExists(LinkPath)
       THEN SetRot(r, [rot[r] EXCEPT !.pc = "res_issym"])
       ELSE SetRot(r, [rot[r] EXCEPT !.pc = "chk", !.cur = None])
  /\ UNCHANGED <<fs, lock, web, hist, serial, now, img>>

resolve_issym(r) ==
  /\ rot[r].pc = "res_issym"
  /\ IF link.k = "sym"
       THEN SetRot(r, [rot[r] EXCEPT !.pc = "res_resolve"])
       ELSE SetRot(r, [rot[r] EXCEPT !.pc = "chk", !.cur = LinkPath])
  /\ UNCHANGED <<fs, lock, web, hist, serial, now, img>>

resolve_resolve(r) ==
  /\ rot[r].pc = "res_resolve"
  /\ SetRot(r, [rot[r] EXCEPT !.pc = "chk", !.cur = Resolve(link)])
  /\ UNCHANGED <<fs, lock, web, hist, serial, now, img>>

main_check(r) ==
  /\ rot[r].pc = "chk"
  /\ IF rot[r].cur = None \/ ~PathExists(rot[r].cur)
       THEN SetRot(r, [rot[r] EXCEPT !.pc = "pt_unlink", !.healed = TRUE,
                                     !.cur = ReadyPath(rot[r].listing[1]),
                                     !.tgt = ReadyPath(rot[r].listing[1]),
                                     !.ret = "open"])
       ELSE SetRot(r, [rot[r] EXCEPT !.pc = "open"])
  /\ UNCHANGED <<fs, lock, web, hist, serial, now, img>>

point_unlink(r) ==
  /\ rot[r].pc = "pt_unlink"
  /\ tmp' = NoLink
  /\ SetRot(r, [rot[r] EXCEPT !.pc = "pt_symlink"])
  /\ UNCHANGED <<ready, thumbs, srcs, link, lock, web, hist, serial, now, img>>

\* symlink_to raises FileExistsError when another writer's current.tmp is
\* there, replace raises FileNotFoundError when it is gone: both are caught
\* and logged, and main goes on.
point_symlink(r) ==
  /\ rot[r].pc = "pt_symlink"
  /\ IF tmp # NoLink
       THEN /\ SetRot(r, [rot[r] EXCEPT !.pc = rot[r].ret])
            /\ UNCHANGED tmp
       ELSE /\ tmp' = Sym(rot[r].tgt.to)
            /\ SetRot(r, [rot[r] EXCEPT !.pc = "pt_replace"])
  /\ UNCHANGED <<ready, thumbs, srcs, link, lock, web, hist, serial, now, img>>

point_replace(r) ==
  /\ rot[r].pc = "pt_replace"
  /\ IF tmp = NoLink
       THEN UNCHANGED <<link, tmp>>
       ELSE /\ link' = Replaced(tmp)
            /\ tmp' = NoLink
  /\ SetRot(r, [rot[r] EXCEPT !.pc = rot[r].ret])
  /\ UNCHANGED <<ready, thumbs, srcs, lock, web, hist, serial, now, img>>

\* Image.open raises when the file is gone or is no image; the exception
\* leaves main through its finally (exit code 1).
\* An exception on the way to main's `except Exception`: the run will
\* `return 1`. The history notes the entry the run failed on.
Raise(r, p, what) ==
  /\ SetRot(r, [rot[r] EXCEPT !.pc = p, !.rc = 1, !.msg = what])
  /\ hist' = [hist EXCEPT !.pin = Pin(Displayed(r), "failed")]

\* Mutant of after_render: a failed run goes on to rotate.
after_render_rotate(rc) == "pick"

\* After render_to_epaper's finally clause: an exception (rc = 1) goes on
\* to main's handler, past the rotation; otherwise main rotates.
after_render(rc) == IF rc = 1 THEN "unlock" ELSE "pick"

open_as_panel_image(r) ==
  /\ rot[r].pc = "open"
  /\ \E ok \in BOOLEAN :
       IF ok /\ PathExists(Displayed(r))
         THEN /\ SetRot(r, [rot[r] EXCEPT !.pc = "epd_init"])
              /\ UNCHANGED hist
         ELSE Raise(r, "unlock", "failed: open")
  /\ UNCHANGED <<fs, lock, web, serial, now, img>>

\* epd.init() is outside the try: when it raises, epd.sleep() is not called.
render_init(r) ==
  /\ rot[r].pc = "epd_init"
  /\ \E ok \in BOOLEAN :
       IF ok
         THEN /\ SetRot(r, [rot[r] EXCEPT !.pc = "epd_display"])
              /\ UNCHANGED hist
         ELSE Raise(r, "unlock", "failed: init")
  /\ UNCHANGED <<fs, lock, web, serial, now, img>>

render_display(r) ==
  /\ rot[r].pc = "epd_display"
  /\ \E ok \in BOOLEAN :
       IF ok
         THEN /\ hist' = IF hist.on /\ Len(hist.seq) < MaxRuns
                           THEN [hist EXCEPT !.seq = Append(@, Displayed(r))]
                           ELSE hist
              /\ SetRot(r, [rot[r] EXCEPT !.pc = "epd_sleep", !.shown = Displayed(r)])
         ELSE Raise(r, "epd_sleep", "failed: display")
  /\ UNCHANGED <<fs, lock, web, serial, now, img>>

render_sleep(r) ==
  /\ rot[r].pc = "epd_sleep"
  /\ SetRot(r, [rot[r] EXCEPT !.slept = TRUE, !.pc = after_render(rot[r].rc)])
  /\ UNCHANGED <<fs, lock, web, hist, serial, now, img>>

main_rotate(r) ==
  /\ rot[r].pc = "pick"
  /\ LET next_path == pick_next_after(rot[r].cur, rot[r].listing) IN
       IF ShouldRepoint(next_path, rot[r].cur)
         THEN SetRot(r, [rot[r] EXCEPT !.pc = "pt_unlink", !.tgt = next_path,
                                       !.ret = "unlock", !.msg = "rotated"])
         ELSE SetRot(r, [rot[r] EXCEPT !.pc = "unlock", !.tgt = next_path,
                                       !.msg = "staying"])
  /\ UNCHANGED <<fs, lock, web, hist, serial, now, img>>

main_unlock(r) ==
  /\ rot[r].pc = "unlock"
  /\ lock' = "free"
  /\ SetRot(r, [rot[r] EXCEPT !.pc = "exit"])
  /\ UNCHANGED <<fs, web, hist, serial, now, img>>

main_exit(r) ==
  /\ rot[r].pc = "exit"
  /\ SetRot(r, RotIdle)
  /\ hist' = IF hist.pin.run = r THEN [hist EXCEPT !.pin = NoPin] ELSE hist
  /\ UNCHANGED <<fs, lock, web, serial, now, img>>

RotStep(r) ==
  \/ acquire_lock(r)
  \/ main_list(r)
  \/ resolve_exists(r)
  \/ resolve_issym(r)
  \/ resolve_resolve(r)
  \/ main_check(r)
  \/ point_unlink(r)
  \/ point_symlink(r)
  \/ point_replace(r)
  \/ open_as_panel_image(r)
  \/ render_init(r)
  \/ render_display(r)
  \/ render_sleep(r)
  \/ main_rotate(r)
  \/ main_unlock(r)
  \/ main_exit(r)

----
\* ---- Web gallery: webframe.py routes ----
SetWeb(w, f) == web' = [web EXCEPT ![w] = f]
Goto(w, p) == SetWeb(w, [web[w] EXCEPT !.pc = p])

\* The first pc of each mutating route once require_token has returned.
Entry_pc(op) ==
  IF op = "upload" THEN "u_src" ELSE IF op = "set" THEN "s_exists" ELSE "d_ready"

\* A request arrives: upload of one file, set_current of a name, or
\* delete_selected of one name (a request naming several deletes them one
\* after the other, as successive requests here do). Each route starts with
\* require_token(request); abort(403) ends the request there.
\* pre: current.bmp as it was when a delete was called.
request(w) ==
  /\ web[w].pc = "idle"
  /\ \E n \in Names, op \in {"upload", "set", "delete"}, t \in Tokens,
        e \in Exts :
       IF require_token(t)
         THEN SetWeb(w, [WebIdle EXCEPT
                !.pc = Entry_pc(op), !.op = op, !.arg = n, !.tok = t,
                !.pre = IF op = "delete" THEN link ELSE NoLink,
                !.ext = IF op = "upload" THEN e ELSE ""])
         ELSE SetWeb(w, [WebIdle EXCEPT
                !.pc = "respond", !.op = op, !.arg = n, !.tok = t])
  /\ hist' = IF /\ web'[w].pc \in {"d_ready", "s_exists"}
                /\ ReadyPath(web'[w].arg) = hist.pin.path
                /\ hist.pin.by = "set"
               THEN [hist EXCEPT !.pin = NoPin] ELSE hist
  /\ serial' = (serial /\ OthersIdle(w))
  /\ UNCHANGED <<fs, lock, rot, now, img>>

\* f.save(raw_tmp), the stamp is read, the source is renamed to base.*
upload_src(w) ==
  /\ web[w].pc = "u_src"
  /\ LET base == ready_name(now, web[w].arg) IN
       /\ srcs' = srcs \cup {<<base, web[w].ext>>}
       /\ SetWeb(w, [web[w] EXCEPT !.pc = "u_ready", !.base = base])
  /\ UNCHANGED <<ready, thumbs, link, tmp, lock, rot, hist, serial, now, img>>

upload_ready(w) ==
  /\ web[w].pc = "u_ready"
  /\ ready' = ready \cup {web[w].base}
  /\ Goto(w, "u_thumb")
  /\ UNCHANGED <<thumbs, srcs, link, tmp, lock, rot, hist, serial, now, img>>

upload_thumb(w) ==
  /\ web[w].pc = "u_thumb"
  /\ thumbs' = thumbs \cup {web[w].base}
  /\ Goto(w, "respond")
  /\ UNCHANGED <<ready, srcs, link, tmp, lock, rot, hist, serial, now, img>>

set_exists(w) ==
  /\ web[w].pc = "s_exists"
  /\ IF web[w].arg \in ready THEN Goto(w, "s_unlink") ELSE Goto(w, "respond")
  /\ UNCHANGED <<fs, lock, rot, hist, serial, now, img>>

set_unlink(w) ==
  /\ web[w].pc = "s_unlink"
  /\ tmp' = NoLink
  /\ Goto(w, "s_symlink")
  /\ UNCHANGED <<ready, thumbs, srcs, link, lock, rot, hist, serial, now, img>>

\* The same two exceptions here end set_symlink; set_current logs them.
set_symlink(w) ==
  /\ web[w].pc = "s_symlink"
  /\ IF tmp # NoLink
       THEN /\ Goto(w, "respond")
            /\ UNCHANGED tmp
       ELSE /\ tmp' = Sym(web[w].arg)
            /\ Goto(w, "s_replace")
  /\ UNCHANGED <<ready, thumbs, srcs, link, lock, rot, hist, serial, now, img>>

set_replace(w) ==
  /\ web[w].pc = "s_replace"
  /\ IF tmp = NoLink
       THEN UNCHANGED <<link, tmp, hist>>
       ELSE /\ link' = Replaced(tmp)
            /\ tmp' = NoLink
            /\ hist' = [hist EXCEPT !.pin = Pin(ReadyPath(web[w].arg), "set")]
  /\ Goto(w, "respond")
  /\ UNCHANGED <<ready, thumbs, srcs, lock, rot, serial, now, img>>

\* Mutant of after_failure: a failed sub-step ends the delete.
after_failure_abort(p) == "respond"

\* `except Exception: pass`: the delete goes on with the sub-step p that
\* follows the failed one.
after_failure(p) == p

\* `SRC_DIR.glob(stem + ".*")`
glob(stem) == {f \in srcs : f[1] = stem}

\* A sub-step of the delete returns: its unlink succeeded (ok) or raised.
Substep(w, ok, id, p) ==
  IF ok THEN Goto(w, p)
  ELSE SetWeb(w, [web[w] EXCEPT !.pc = after_failure(p),
                                !.fail = web[w].fail \cup {id}])

delete_ready(w) ==
  /\ web[w].pc = "d_ready"
  /\ \E ok \in BOOLEAN :
       /\ ready' = IF ok THEN ready \ {web[w].arg} ELSE ready
       /\ Substep(w, ok, "ready", "d_thumb")
  /\ UNCHANGED <<thumbs, srcs, link, tmp, lock, rot, hist, serial, now, img>>

delete_thumb(w) ==
  /\ web[w].pc = "d_thumb"
  /\ \E ok \in BOOLEAN :
       /\ thumbs' = IF ok THEN thumbs \ {web[w].arg} ELSE thumbs
       /\ Substep(w, ok, "thumb", "d_glob")
  /\ UNCHANGED <<ready, srcs, link, tmp, lock, rot, hist, serial, now, img>>

delete_glob(w) ==
  /\ web[w].pc = "d_glob"
  /\ SetWeb(w, [web[w] EXCEPT !.pc = "d_src", !.todo = glob(web[w].arg)])
  /\ UNCHANGED <<fs, lock, rot, hist, serial, now, img>>

\* One turn of the loop over the files the glob found, in any order.
delete_src(w) ==
  /\ web[w].pc = "d_src"
  /\ IF web[w].todo = {}
       THEN /\ Goto(w, "d_issym")
            /\ UNCHANGED srcs
       ELSE \E f \in web[w].todo, ok \in BOOLEAN :
              /\ srcs' = IF ok THEN srcs \ {f} ELSE srcs
              /\ SetWeb(w, [web[w] EXCEPT
                     !.todo = web[w].todo \ {f},
                     !.pc = IF ok THEN "d_src" ELSE after_failure("d_src"),
                     !.fail = IF ok THEN web[w].fail ELSE web[w].fail \cup {f[2]}])
  /\ UNCHANGED <<ready, thumbs, link, tmp, lock, rot, hist, serial, now, img>>

delete_issym(w) ==
  /\ web[w].pc = "d_issym"
  /\ IF link.k = "sym" THEN Goto(w, "d_resolve") ELSE Goto(w, "respond")
  /\ UNCHANGED <<fs, lock, rot, hist, serial, now, img>>

delete_resolve(w) ==
  /\ web[w].pc = "d_resolve"
  /\ IF PointsHere(link, web[w].arg) THEN Goto(w, "d_unlink") ELSE Goto(w, "respond")
  /\ UNCHANGED <<fs, lock, rot, hist, serial, now, img>>

delete_unlink(w) ==
  /\ web[w].pc = "d_unlink"
  /\ \E ok \in BOOLEAN :
       /\ link' = IF ok THEN NoLink ELSE link
       /\ Substep(w, ok, "link", "respond")
  /\ UNCHANGED <<ready, thumbs, srcs, tmp, lock, rot, hist, serial, now, img>>

respond(w) ==
  /\ web[w].pc = "respond"
  /\ SetWeb(w, WebIdle)
  /\ UNCHANGED <<fs, lock, rot, hist, serial, now, img>>

WebStep(w) ==
  \/ request(w)
  \/ upload_src(w)
  \/ upload_ready(w)
  \/ upload_thumb(w)
  \/ set_exists(w)
  \/ set_unlink(w)
  \/ set_symlink(w)
  \/ set_replace(w)
  \/ delete_ready(w)
  \/ delete_thumb(w)
  \/ delete_glob(w)
  \/ delete_src(w)
  \/ delete_issym(w)
  \/ delete_resolve(w)
  \/ delete_unlink(w)
  \/ respond(w)

----
\* The plain case of a request: no unlink of a delete has raised, and an
\* uploaded file is a JPEG.
NoFault(w) == web'[w].fail = {} /\ web'[w].ext \in {"", "jpg"}

\* A Rotator invocation overlapping the requests of one web handler, in the
\* plain case.
Next ==
  \/ RotStep("r1")
  \/ WebStep("w1") /\ NoFault("w1")

Spec == Init /\ [][Next]_vars

\* Overlapping Rotator invocations alone, on a Ready-Set nothing else touches.
NextRot == \E r \in Rotators : RotStep(r)

SpecRot == InitRot /\ [][NextRot]_vars

\* Two web requests handled concurrently, no Rotator running.
NextWeb == \E w \in Web : WebStep(w) /\ NoFault(w)

SpecWeb == Init /\ [][NextWeb]_vars

\* Operations that do not overlap: Rotator runs and web requests (with
\* failing unlinks and both extensions) one after the other, each process
\* stepping only while the other is idle.
NextSeq ==
  \/ OthersIdle("r1") /\ RotStep("r1")
  \/ OthersIdle("w1") /\ WebStep("w1")

SpecSeq == Init /\ [][NextSeq]_vars

\* A second passes.
tick ==
  /\ now < MaxStamp
  /\ now' = now + 1
  /\ UNCHANGED <<fs, lock, rot, web, hist, serial, img>>

\* The upload route alone.
upload(w) ==
  \/ request(w) /\ web'[w].op = "upload"
  \/ upload_src(w)
  \/ upload_ready(w)
  \/ upload_thumb(w)
  \/ respond(w)

\* Uploads into an empty gallery, from two handlers, while the clock runs.
InitUp ==
  /\ FsInit({}, {NoLink})
  /\ hist = [on |-> FALSE, from |-> NoLink, seq |-> <<>>, pin |-> NoPin]
  /\ img = NoImage

NextUp ==
  \/ tick
  \/ \E w \in Web : upload(w)

SpecUp == InitUp /\ [][NextUp]_vars

----
\* ---- The compositors: an image is its size, (width, height) ----
\* Sizes stay below 11 pixels, where the double-precision quotients and
\* products of the code have the integer part of the exact ones; a scale
\* factor is kept as the fraction <<numerator, denominator>>.
Max(a, b) == IF a >= b THEN a ELSE b

\* `min(target_w/iw, target_h/ih)`
min_scale(tw, th, iw, ih) == IF tw * ih <= th * iw THEN <<tw, iw>> ELSE <<th, ih>>

\* `int(d * scale)`: truncation of a non-negative product
int_mul(d, s) == (d * s[1]) \div s[2]

\* Mutant of scaled: the scaled dimension is not floored at 1.
scaled_unfloored(d, s) == int_mul(d, s)

\* `max(1, int(d * scale))`
scaled(d, s) == Max(1, int_mul(d, s))

\* Image.resize((nw, nh)) raises ValueError unless both are positive.
resize_raises(nw, nh) == nw < 1 \/ nh < 1

\* `img.rotate(90, expand=True)`; `iw, ih = ih, iw`
rotate90(iw, ih) == <<ih, iw>>

\* Image.new("RGB", (w, h)); paste() and quantize() keep the size.
new(w, h) == <<w, h>>

\* Image.crop(box): the size of the box (left, upper, right, lower).
crop(box) == <<box[3] - box[1], box[4] - box[2]>>

\* The letterbox shared by prepare_epaper_frame and convert_to_palette:
\* scale, resize, paste centred on a canvas of the target size.
letterbox(iw, ih, tw, th) ==
  LET scale == min_scale(tw, th, iw, ih)
      nw == scaled(iw, scale)
      nh == scaled(ih, scale)
  IN  [raised |-> resize_raises(nw, nh), size |-> new(tw, th),
       nw |-> nw, nh |-> nh,
       x |-> (tw - nw) \div 2, y |-> (th - nh) \div 2]

prepare_epaper_frame(iw, ih) == letterbox(iw, ih, W, H)

convert_to_palette(iw0, ih0, target_w, target_h) ==
  LET d == IF (target_w > target_h) # (iw0 > ih0)
             THEN rotate90(iw0, ih0) ELSE <<iw0, ih0>>
  IN  letterbox(d[1], d[2], target_w, target_h)

\* Fill-crop: `image_ratio > target_ratio` is iw / ih > W / H.
to_epaper_canvas(iw0, ih0, rotate) ==
  LET d == IF rotate \in {90, 270} THEN rotate90(iw0, ih0) ELSE <<iw0, ih0>>
      iw == d[1]
      ih == d[2]
  IN  IF iw * H > W * ih
        THEN LET nw == int_mul(iw, <<H, ih>>)
                 x == (nw - W) \div 2
             IN  [raised |-> resize_raises(nw, H),
                  size |-> crop(<<x, 0, x + W, H>>),
                  nw |-> nw, nh |-> H, x |-> x, y |-> 0]
        ELSE LET nh == int_mul(ih, <<W, iw>>)
                 y == (nh - H) \div 2
             IN  [raised |-> resize_raises(W, nh),
                  size |-> crop(<<0, y, W, y + H>>),
                  nw |-> W, nh |-> nh, x |-> 0, y |-> y]

Dims == 1..MaxDim

\* One compositor call: any source size, any rotation, the panel or any
\* free target size.
InitImg ==
  /\ FsInit({}, {NoLink})
  /\ hist = [on |-> FALSE, from |-> NoLink, seq |-> <<>>, pin |-> NoPin]
  /\ \E iw \in Dims, ih \in Dims :
       \/ img = [NoImage EXCEPT !.fn = "prepare_epaper_frame",
                   !.iw = iw, !.ih = ih, !.tw = W, !.th = H]
       \/ \E tw \in Dims, th \in Dims :
            img = [NoImage EXCEPT !.fn = "convert_to_palette",
                    !.iw = iw, !.ih = ih, !.tw = tw, !.th = th]
       \/ \E rotate \in {0, 90, 180, 270} :
            img = [NoImage EXCEPT !.fn = "to_epaper_canvas",
                    !.iw = iw, !.ih = ih, !.tw = W, !.th = H,
                    !.rotate = rotate]

Returns(fn, out) ==
  /\ img.fn = fn /\ img.out = NoOut
  /\ img' = [img EXCEPT !.out = out]
  /\ UNCHANGED <<fs, lock, rot, web, hist, serial, now>>

run_prepare_epaper_frame ==
  Returns("prepare_epaper_frame", prepare_epaper_frame(img.iw, img.ih))

run_convert_to_palette ==
  Returns("convert_to_palette",
          convert_to_palette(img.iw, img.ih, img.tw, img.th))

run_to_epaper_canvas ==
  Returns("to_epaper_canvas", to_epaper_canvas(img.iw, img.ih, img.rotate))

NextImg ==
  \/ run_prepare_epaper_frame
  \/ run_convert_to_palette
  \/ run_to_epaper_canvas

SpecImg == InitImg /\ [][NextImg]_vars

----
\* ---- Properties ----
First(l) == ReadyPath(l[1])
\* e_((i + k) mod N), for the 1-based index i of e_i in l
Entry(l, i, k) == l[((i - 1 + k) % Len(l)) + 1]

RunPcs == {"list", "res_exists", "res_issym", "res_resolve", "chk", "pt_unlink",
           "pt_symlink", "pt_replace", "open", "epd_init", "epd_display",
           "epd_sleep", "pick", "unlock"}
PointPcs == {"pt_unlink", "pt_symlink", "pt_replace"}
SetPcs == {"s_unlink", "s_symlink", "s_replace"}
InRun(r) == rot[r].pc \in RunPcs
RotatorsDone == \A r \in Rotators : rot[r].pc \in {"idle", "exit"}
\* No operation is in progress: every process is idle or has ended its run.
Quiescent == RotatorsDone /\ \A w \in Web : web[w].pc \in {"idle", "respond"}
\* The pointer is absent or references an entry of the Ready-Set.
PointerLive == link = NoLink \/ (link.k = "sym" /\ link.to \in ready)
\* The pointer is absent or dangling.
PointerMissing == link = NoLink \/ (link.k = "sym" /\ link.to \notin ready)

\* C1: in the rotation-only scenario, with N > 1 entries and the pointer
\* first at e_i, the k-th complete run displays e_((i+k-1) mod N); between
\* runs the pointer is at e_((i+k) mod N) after k complete runs, so it is
\* back at e_i after N runs and not before.
C1_Cyclic ==
  LET l == Sorted(ready)
      k == Len(hist.seq)
  IN  (Len(l) > 1 /\ hist.from.k = "sym" /\ hist.from.to \in ready) =>
        LET i == IndexOf(l, hist.from.to) IN
          /\ \A j \in 1..k : hist.seq[j] = ReadyPath(Entry(l, i, j - 1))
          /\ (RotatorsDone /\ k < MaxRuns) =>
               /\ link = Sym(Entry(l, i, k))
               /\ (k = Len(l) => link = hist.from)
               /\ (0 < k /\ k < Len(l) => link # hist.from)

C1_Witness ==
  /\ Cardinality(ready) = 3
  /\ hist.from.k = "sym" /\ hist.from.to \in ready
  /\ Len(hist.seq) = 3
  /\ RotatorsDone
  /\ link = hist.from

\* C2: a Rotator invocation that starts while the lock is held goes straight
\* to its exit with code 0: it lists nothing, shows nothing, and the pointer,
\* the temporary link, the directories and the lock are as before.
C2_BusyExit ==
  [][\A r \in Rotators :
       (rot[r].pc = "idle" /\ lock # "free" /\ rot'[r] # rot[r]) =>
         /\ rot'[r] = [rot[r] EXCEPT !.pc = "exit", !.msg = "busy"]
         /\ rot'[r].rc = 0 /\ rot'[r].listing = <<>> /\ rot'[r].shown = None
         /\ UNCHANGED <<fs, lock, hist>>]_vars

C2_Witness ==
  \E r, q \in Rotators :
    r # q /\ lock = q /\ InRun(q) /\ rot[r].pc = "exit" /\ rot[r].msg = "busy"

\* C3: at most one Rotator invocation is between lock acquisition and lock
\* release, and it is the holder of the lock.
C3_Mutex ==
  /\ \A r, q \in Rotators : (InRun(r) /\ InRun(q)) => r = q
  /\ \A r \in Rotators : InRun(r) => lock = r

C3_Witness ==
  \E r, q \in Rotators :
    r # q /\ rot[q].pc = "pt_replace" /\ rot[q].msg = "rotated"
          /\ rot[r].pc = "exit" /\ rot[r].msg = "busy"

\* C4 as stated: a run that found the pointer absent or dangling ends (its
\* lock release) with the pointer at the first entry of its listing.
C4_Orig ==
  [][\A r \in Rotators :
       (rot[r].pc = "unlock" /\ rot'[r].pc = "exit" /\ rot[r].healed /\ rot[r].rc = 0) =>
         /\ rot[r].shown = First(rot[r].listing)
         /\ link' = Sym(rot[r].listing[1])]_vars

\* C4 amended: main's test selects the first entry exactly when the pointer
\* is absent or dangling; such a run points the pointer at the first entry
\* and displays it, and then advances like every run: it ends with the
\* pointer at the entry after the first (the first itself only in a
\* one-entry listing). A run that fails after the repair leaves it at the first.
C4_HealThenAdvance ==
  [][\A r \in Rotators :
       /\ (rot[r].pc = "chk" /\ rot'[r] # rot[r]) =>
            /\ rot'[r].healed <=> PointerMissing
            /\ rot'[r].healed => rot'[r].tgt = First(rot[r].listing)
       /\ (rot[r].pc = "open" /\ rot[r].healed) => link = Sym(rot[r].listing[1])
       /\ (rot[r].pc = "unlock" /\ rot'[r].pc = "exit" /\ rot[r].healed) =>
            IF rot[r].rc = 0
              THEN /\ rot[r].shown = First(rot[r].listing)
                   /\ link' = Sym(Entry(rot[r].listing, 1, 1))
              ELSE link' = Sym(rot[r].listing[1])]_vars

C4_Witness ==
  \E r \in Rotators :
    /\ rot[r].pc = "exit" /\ rot[r].healed /\ rot[r].rc = 0
    /\ Len(rot[r].listing) > 1
    /\ link = Sym(rot[r].listing[2])

C6_EmptyNoOp ==
  [][\A r \in Rotators :
       (rot'[r] # rot[r] /\ (rot[r].msg = "nothing" \/ (rot[r].pc = "list" /\ ready = {}))) =>
         /\ UNCHANGED fs
         /\ rot'[r].shown = None
         /\ rot[r].pc = "list" => (rot'[r].pc = "unlock" /\ rot'[r].msg = "nothing")
         /\ rot[r].pc = "unlock" => (rot'[r].pc = "exit" /\ rot'[r].rc = 0 /\ lock' = "free")]_vars

C6_Witness ==
  \E r \in Rotators :
    rot[r].pc = "exit" /\ rot[r].msg = "nothing" /\ rot[r].rc = 0 /\ lock = "free"

\* C7: in the rotation-only scenario with one entry and the pointer on it,
\* the pointer stays on that entry and no repoint is ever started.
C7_SingleEntry ==
  (Cardinality(ready) = 1 /\ hist.from.k = "sym" /\ hist.from.to \in ready) =>
    /\ link = hist.from
    /\ tmp = NoLink
    /\ \A r \in Rotators : rot[r].pc \notin PointPcs /\ rot[r].msg # "rotated"

C7_Witness ==
  /\ Cardinality(ready) = 1 /\ hist.from.k = "sym" /\ hist.from.to \in ready
  /\ Len(hist.seq) >= 2
  /\ \E r \in Rotators : rot[r].pc = "exit" /\ rot[r].msg = "staying"

\* The targets requested by the pointer writers in progress.
WriterTargets ==
  {rot[r].tgt.to : r \in {x \in Rotators : rot[x].pc \in PointPcs}}
    \cup {web[w].arg : w \in {x \in Web : web[x].pc \in SetPcs}}

\* C8: every step of a pointer writer (set_symlink, atomic_point_current)
\* leaves current.bmp as it was or makes it a symlink to a target some
\* writer in progress requested; it is never removed or left half-made.
C8_AtomicSet ==
  [][((\E r \in Rotators : rot[r].pc \in PointPcs /\ rot'[r] # rot[r])
        \/ (\E w \in Web : web[w].pc \in SetPcs /\ web'[w] # web[w])) =>
       (link' = link \/ (link'.k = "sym" /\ link'.to \in WriterTargets))]_vars

C8_Witness ==
  \E r \in Rotators, w \in Web :
    /\ web[w].pc = "respond" /\ web[w].op = "set"
    /\ rot[r].pc = "pt_replace"
    /\ rot[r].tgt.to # web[w].arg
    /\ link = Sym(rot[r].tgt.to)
    /\ tmp = NoLink

C10_DeleteClears ==
  \A w \in Web :
    (/\ web[w].pc = "respond" /\ web[w].op = "delete"
     /\ web[w].tok = TOKEN /\ web[w].fail = {}) =>
      /\ link = (IF web[w].pre = Sym(web[w].arg) THEN NoLink ELSE web[w].pre)
      /\ web[w].arg \notin ready
      /\ web[w].arg \notin thumbs
      /\ glob(web[w].arg) = {}

C10_Witness ==
  \E w \in Web :
    /\ web[w].pc = "respond" /\ web[w].op = "delete" /\ web[w].tok = TOKEN
    /\ web[w].fail = {}
    /\ web[w].pre = Sym(web[w].arg)
    /\ link = NoLink

\* C11: a mutating request (upload, set_current, delete_selected) whose
\* token is missing or differs from TOKEN is rejected at once: its handler
\* goes from the arrival straight to the response, and no step it takes
\* changes the Ready-Set, the thumbnails, the sources, the pointer or the
\* temporary link. A handler inside a route carries the accepted token.
Rejected(x) == x.pc # "idle" /\ x.tok # TOKEN

C11_TokenFirst ==
  [][\A w \in Web :
       /\ (web'[w] # web[w] /\ (Rejected(web[w]) \/ Rejected(web'[w]))) =>
            /\ UNCHANGED fs
            /\ web'[w].pc \in {"respond", "idle"}
       /\ web'[w].pc \notin {"idle", "respond"} => web'[w].tok = TOKEN]_vars

C11_Witness ==
  \E w \in Web :
    /\ web[w].pc = "respond" /\ web[w].op = "delete" /\ web[w].tok = "none"
    /\ web[w].arg \in ready /\ link = Sym(web[w].arg)

\* C12: an upload never writes a Ready-Set name that an earlier upload has
\* written: at the step where upload() saves its bitmap, no entry of that
\* name is in the Ready-Set (which, in the upload scenario, holds exactly
\* what the uploads so far have saved).
C12_Orig ==
  [][\A w \in Web :
       (web[w].pc = "u_ready" /\ web'[w].pc = "u_thumb") =>
         web[w].base \notin ready]_vars

\* C13: when a delete that overlapped no other operation returns, every
\* sub-step whose unlink did not raise has taken effect, whichever of the
\* others raised: the ready bitmap is gone unless its unlink raised, the
\* thumbnail likewise, every same-stem source file whose unlink did not
\* raise is gone, and a pointer that referenced the name is absent unless
\* its unlink raised.
C13_BestEffort ==
  \A w \in Web :
    (web[w].pc = "respond" /\ web[w].op = "delete" /\ web[w].tok = TOKEN) =>
      /\ "ready" \notin web[w].fail => web[w].arg \notin ready
      /\ "thumb" \notin web[w].fail => web[w].arg \notin thumbs
      /\ \A e \in Exts :
           e \notin web[w].fail => <<web[w].arg, e>> \notin srcs
      /\ ("link" \notin web[w].fail /\ web[w].pre = Sym(web[w].arg)) =>
           link = NoLink

C13_Witness ==
  \E w \in Web :
    /\ web[w].pc = "respond" /\ web[w].op = "delete" /\ web[w].tok = TOKEN
    /\ web[w].fail = {"thumb", "jpg"}
    /\ web[w].arg \notin ready /\ web[w].arg \in thumbs
    /\ <<web[w].arg, "jpg">> \in srcs /\ <<web[w].arg, "png">> \notin srcs
    /\ web[w].pre = Sym(web[w].arg) /\ link = NoLink

\* C14: a Rotator run in which a panel call (init, getbuffer or display)
\* has raised has called epd.sleep() by the time it releases the lock.
PanelFailed(r) == rot[r].msg \in {"failed: init", "failed: display"}

C14_Orig ==
  \A r \in Rotators :
    (rot[r].pc \in {"unlock", "exit"} /\ PanelFailed(r)) => rot[r].slept

\* C15: every compositor call returns, without raising, an image of exactly
\* the target size: the letterbox of prepare_epaper_frame (panel size) and
\* of convert_to_palette (any target size, rotating when orientations
\* differ), and the fill-crop of to_epaper_canvas under every rotation.
C15_ExactSize ==
  img.out # NoOut =>
    /\ ~img.out.raised
    /\ img.out.size = <<img.tw, img.th>>

C15_Witness ==
  /\ img.fn = "convert_to_palette"
  /\ img.iw = 1 /\ img.ih = MaxDim /\ img.tw = 1 /\ img.th = 1
  /\ img.out # NoOut
  /\ img.out.nw = 1 /\ img.out.nh = 1 /\ img.out.size = <<1, 1>>

\* C16: the letterbox scales by the single factor
\* s = min(target_w/src_w, target_h/src_h), and the scaled width and height
\* are src_w*s and src_h*s rounded to the nearest integer and floored at 1.
\* n is an integer nearest to p/q.
IsNearest(n, p, q) == 2 * (n * q - p) <= q /\ 2 * (p - n * q) <= q
\* n is p/q rounded to the nearest integer, floored at 1.
RoundedAt1(n, p, q) ==
  \E r \in 0..(p \div q + 1) : IsNearest(r, p, q) /\ n = Max(1, r)
\* The size of the image the letterbox scales: the source, or the source
\* rotated where convert_to_palette rotates it.
Scaled_src ==
  IF img.fn = "convert_to_palette" /\ (img.tw > img.th) # (img.iw > img.ih)
    THEN <<img.ih, img.iw>> ELSE <<img.iw, img.ih>>

C16_Orig ==
  (img.out # NoOut /\ img.fn \in {"prepare_epaper_frame", "convert_to_palette"}) =>
    LET sw == Scaled_src[1]
        sh == Scaled_src[2]
        s == IF img.tw * sh <= img.th * sw THEN <<img.tw, sw>> ELSE <<img.th, sh>>
    IN  /\ RoundedAt1(img.out.nw, sw * s[1], s[2])
        /\ RoundedAt1(img.out.nh, sh * s[1], s[2])

\* C17: a Rotator run that finds photos/current.bmp to be a regular file
\* leaves it one: no step of the run replaces it (by a symlink or otherwise).
C17_Orig ==
  [][\A r \in Rotators :
       (rot[r].cur = LinkPath /\ link = RegFile /\ rot'[r] # rot[r]) =>
         link' = RegFile]_vars

\* C18: a pointer writer whose rename of current.tmp over current.bmp
\* succeeds leaves current.bmp a symlink to the target that writer itself
\* requested, whatever other writers did in between.
C18_Orig ==
  [][/\ \A w \in Web :
          (web[w].pc = "s_replace" /\ web'[w] # web[w] /\ tmp # NoLink) =>
            link' = Sym(web[w].arg)
     /\ \A r \in Rotators :
          (rot[r].pc = "pt_replace" /\ rot'[r] # rot[r] /\ tmp # NoLink) =>
            link' = Sym(rot[r].tgt.to)]_vars

PointerAt(path) ==
  \/ path = LinkPath /\ link = RegFile
  \/ link.k = "sym" /\ ReadyPath(link.to) = path

C20_RetryFailed ==
  /\ \A r \in Rotators :
       (rot[r].pc = "unlock" /\ rot[r].rc = 1) =>
         /\ rot[r].msg # "rotated"
         /\ PointerAt(rot[r].cur)
  /\ \A q \in Rotators :
       (hist.pin.run = q /\ hist.pin.by = "failed" /\ rot[q].shown # None) =>
         rot[q].shown = hist.pin.path

C20_Witness ==
  \E q \in Rotators :
    /\ hist.pin.run = q /\ hist.pin.by = "failed"
    /\ rot[q].pc = "pick" /\ rot[q].shown = hist.pin.path
    /\ Cardinality(ready) > 1 /\ PointerAt(hist.pin.path)

====
